---- MODULE Spec2Model ----
(***************************************************************************)
(* A model of ts-downloader: Downloader.download() splits a remote         *)
(* resource into byte-range chunks, groups the chunks into batches, runs   *)
(* the batches concurrently (chunks of a batch one after the other) and    *)
(* retries the execution step up to maxRetries times.                      *)
(*                                                                         *)
(* JavaScript runs the code on one thread: a step of the model is one      *)
(* macrotask, i.e. the arrival of one I/O result (the HEAD response, a     *)
(* ranged response) together with every continuation that the result      *)
(* makes runnable (the microtasks), up to the next suspension on I/O.      *)
(* A 206 response is taken to arrive with its body: between the two        *)
(* awaits (fetch, arrayBuffer) downloadPart only tests the status.         *)
(* FileWriter.writeAt does its file I/O synchronously (openSync,           *)
(* writeSync, closeSync), so a chunk's write is part of the step that      *)
(* received the body.                                                      *)
(***************************************************************************)
EXTENDS Integers, Sequences, FiniteSets, TLC

\* ------------------------------------------------------------------ bounds
\* Largest resource size (bytes) of the execution model.
MaxSize == 5
\* Largest configured chunkSizeB of the execution model.
MaxChunkSize == 3
\* Largest configured maxConcurrentDownloads of the execution model.
MaxConcurrent == 2
\* Largest configured maxRetries of the execution model.
MaxRetries == 2
\* Largest value a partDeterminer returns.
MaxParts == 2
\* What the partDeterminer of defaultDownloaderConfig() returns for a file of
\* less than 1 MB: the partDeterminer of the execution model.
DefaultParts == 1
\* Largest maxConcurrentDownloads * maxRetries of the execution model: the
\* batch invocations a download can have launched over all its attempts when
\* each attempt has as many batches as the configuration allows.
MaxLaunches == 4
\* Largest maxRetries * size of the execution model: the bytes a download
\* asks for over all its attempts when each attempt asks for the whole
\* resource.
MaxBytes == 10
\* Largest resource of the executions checked for liveness.
FairMaxSize == 3
\* Largest resource of the downloads of a reused Downloader.
ReuseMaxSize == 3
\* Most faults the ranged requests and the writes of one download() meet, in
\* total: one for a request that fails, a response that is not 206, a body
\* that fails to arrive and a write that throws, and one for each byte a body
\* has more or fewer than the resource has in the range asked for and for
\* each byte of its buffer a write leaves unwritten.
MaxFaults == 2
\* Bounds of the planning model (no execution, so they can be larger).
PlanMaxSize == 12
PlanMaxChunkSize == 5
PlanMaxConcurrent == 5
PlanMaxParts == 5

\* Calls of download() on one Downloader, in the specification of its reuse.
MaxDownloads == 2

VARIABLES
    config,          \* the DownloaderConfig object shared with the Downloader
    size,            \* the true size of the remote resource, in bytes
    contentLength,   \* the content-length header the server sends, if any
    headStatus,      \* the status of the HEAD response (0: not answered)
    pc,              \* where download() is: idle, head, await, resolved, rejected
    fileSize,        \* download(): const fileSize
    numberOfChunks,  \* download(): const numberOfChunks
    chunks,          \* download(): the DownloadChunk objects, in order
    batches,         \* download(): batches of (references to) chunks
    i,               \* download(): the retry loop's index
    attempts,        \* how many times the loop body launched the batches
    outcomes,        \* how each attempt's Promise.all settled, in order
    error,           \* download(): let error / the error download() rejects with
    writtenBytes,    \* download(): let writtenBytes / the value it resolves with
    tasks,           \* the downloadBatch() invocations running or awaited
    file,            \* the destination file: file[o+1] is the byte at offset o
    compliant,       \* every ranged request answered so far was answered 206,
                     \* every body received so far had the bytes of its range
    writerCalls,     \* how many times FileWriter.writeAt was called
    requests,        \* how many ranged requests this download() has issued
    downloads,       \* how many times download() was called on the Downloader
    earlier,         \* the earlier calls of download() still awaiting their HEAD
    wholeWrites,     \* every write that returned so far wrote its whole buffer
    faults           \* the faults its ranged requests and writes have met so far

vars == <<config, size, contentLength, headStatus, pc, fileSize, numberOfChunks,
          chunks, batches, i, attempts, outcomes, error, writtenBytes, tasks, file,
          compliant, writerCalls, requests, downloads, earlier, wholeWrites, faults>>

\* A byte of the file that no write has touched (a hole, or absent).
Hole == -1

Max(a, b) == IF a >= b THEN a ELSE b
Min(a, b) == IF a <= b THEN a ELSE b

\* Math.ceil(a / b) for a >= 0, b > 0.
Ceil(a, b) == (a + b - 1) \div b

\* ------------------------------------------------------- strings of digits
\* A string is the sequence of its UTF-16 code units, as the runtime has it:
\* "12" is <<49, 50>>.
\* The code units of "0" to "9".
Digits == <<48, 49, 50, 51, 52, 53, 54, 55, 56, 57>>

DigitValue(c) == CHOOSE d \in 0..9 : Digits[d + 1] = c

IsDigit(c) == \E d \in 0..9 : Digits[d + 1] = c

\* The decimal rendering of n >= 0 (what a server puts in content-length), as
\* the sequence of its characters.
RECURSIVE ToDecimal(_)
ToDecimal(n) == IF n < 10 THEN <<Digits[n + 1]>>
                ELSE ToDecimal(n \div 10) \o <<Digits[(n % 10) + 1]>>

NaN == "NaN"

\* The code units of "0" to "9" and "a" to "f".
HexDigits == Digits \o <<97, 98, 99, 100, 101, 102>>

\* The code units of "0" to "9" and "A" to "F".
UpperHexDigits == Digits \o <<65, 66, 67, 68, 69, 70>>

IsHexDigit(c) == \E d \in 0..15 : HexDigits[d + 1] = c \/ UpperHexDigits[d + 1] = c

HexDigitValue(c) ==
    CHOOSE d \in 0..15 : HexDigits[d + 1] = c \/ UpperHexDigits[d + 1] = c

\* The white space parseInt skips (StrWhiteSpaceChar, by code unit): tab,
\* line feed, vertical tab, form feed, carriage return, space, no-break
\* space, ogham space mark, en quad to hair space (U+2000 to U+200A), line
\* separator, paragraph separator, narrow no-break space, medium mathematical
\* space, ideographic space and the byte order mark.
IsWhiteSpace(c) ==
    c \in {9, 10, 11, 12, 13, 32, 160, 5760, 8232, 8233, 8239, 8287, 12288,
           65279} \cup 8192..8202

\* The number made of the leading digits of str in the radix (10 or 16).
RECURSIVE ParseDigits(_, _, _)
ParseDigits(str, radix, acc) ==
    IF str = <<>> THEN acc
    ELSE IF radix = 10 /\ IsDigit(Head(str))
    THEN ParseDigits(Tail(str), radix, 10 * acc + DigitValue(Head(str)))
    ELSE IF radix = 16 /\ IsHexDigit(Head(str))
    THEN ParseDigits(Tail(str), radix, 16 * acc + HexDigitValue(Head(str)))
    ELSE acc

RECURSIVE SkipWhiteSpace(_)
SkipWhiteSpace(str) ==
    IF str # <<>> /\ IsWhiteSpace(Head(str)) THEN SkipWhiteSpace(Tail(str)) ELSE str

\* parseInt(str) with no radix: leading white space is skipped, a sign is
\* read, a 0x or 0X prefix selects radix 16, and the number is made of the
\* digits that follow, up to the first character that is none; NaN if none.
parseInt(str) ==
    LET s1     == SkipWhiteSpace(str)
        signed == s1 # <<>> /\ Head(s1) \in {43, 45}         \* "+", "-"
        sign   == IF s1 # <<>> /\ Head(s1) = 45 THEN -1 ELSE 1
        s2     == IF signed THEN Tail(s1) ELSE s1
        hex    == Len(s2) >= 2 /\ s2[1] = 48 /\ s2[2] \in {120, 88}  \* "0x", "0X"
        s3     == IF hex THEN Tail(Tail(s2)) ELSE s2
    IN  IF s3 = <<>> THEN NaN
        ELSE IF hex
        THEN IF IsHexDigit(Head(s3)) THEN sign * ParseDigits(s3, 16, 0) ELSE NaN
        ELSE IF IsDigit(Head(s3)) THEN sign * ParseDigits(s3, 10, 0) ELSE NaN

\* ------------------------------------------------------------- DownloadChunk
\* new DownloadChunk(w, start, size, current)
DownloadChunk(start, sz, current) == [start |-> start, size |-> sz, current |-> current]

\* getRange(): `bytes=${start}-${start + size - 1}`, as its parts.
getRange(chunk) == <<"bytes=", chunk.start, "-", chunk.start + chunk.size - 1>>

\* ---------------------------------------------------------------- planning
\* config.partDeterminer(fileSize): the configured function, applied.
partDeterminer(cfg, fs) == cfg.partDeterminer[fs]

\* determineNumberOfChunks without the write-back of the derived chunk size.
determineNumberOfChunksNoWriteBack(cfg, fs) ==
    IF cfg.chunkSizeB <= 0
    THEN [numberOfChunks |-> partDeterminer(cfg, fs), config |-> cfg]
    ELSE [numberOfChunks |-> Ceil(fs, cfg.chunkSizeB), config |-> cfg]

\* determineNumberOfChunks rounding both divisions down (Math.floor).
determineNumberOfChunksFloor(cfg, fs) ==
    IF cfg.chunkSizeB <= 0
    THEN LET n == partDeterminer(cfg, fs)
         IN  [numberOfChunks |-> n,
              config |-> [cfg EXCEPT !.chunkSizeB = fs \div n]]
    ELSE [numberOfChunks |-> fs \div cfg.chunkSizeB, config |-> cfg]

\* determineNumberOfChunks consulting partDeterminer whatever chunkSizeB is.
determineNumberOfChunksByCount(cfg, fs) ==
    LET n == partDeterminer(cfg, fs)
    IN  [numberOfChunks |-> n,
         config |-> [cfg EXCEPT !.chunkSizeB = Ceil(fs, n)]]

\* determineNumberOfChunks(fileSize): the number returned and the config left.
determineNumberOfChunks(cfg, fs) ==
    IF cfg.chunkSizeB <= 0
    THEN LET n == partDeterminer(cfg, fs)
         IN  [numberOfChunks |-> n,
              config |-> [cfg EXCEPT !.chunkSizeB = Ceil(fs, n)]]
    ELSE [numberOfChunks |-> Ceil(fs, cfg.chunkSizeB), config |-> cfg]

\* createChunks(numberOfChunks, w)
createChunks(cfg, n) ==
    [k \in 1..n |-> DownloadChunk((k - 1) * cfg.chunkSizeB, cfg.chunkSizeB, 0)]

\* chunks.slice(from, to) on 0-based positions, as Array.prototype.slice.
Slice(s, from, to) == [k \in 1..(Min(to, Len(s)) - from) |-> s[from + k]]

\* The for loop of batchChunks: slices of numberChunksPerBatch from position p.
RECURSIVE BatchLoop(_, _, _)
BatchLoop(refs, p, per) ==
    IF p < Len(refs)
    THEN <<Slice(refs, p, p + per)>> \o BatchLoop(refs, p + per, per)
    ELSE <<>>

\* batchChunks with numberChunksPerBatch = maxConcurrentDownloads (what its
\* doc comment says) instead of ceil(length / maxConcurrentDownloads).
batchChunksOfMaxSize(cfg, chs) ==
    LET n == Len(chs)
        refs == [k \in 1..n |-> k]
    IN  IF cfg.maxConcurrentDownloads <= 0 \/ n <= cfg.maxConcurrentDownloads
        THEN [k \in 1..n |-> <<k>>]
        ELSE BatchLoop(refs, 0, cfg.maxConcurrentDownloads)

\* batchChunks(chunks): the batches, each a sequence of references (indices
\* into chunks) to the chunk objects it holds.
batchChunks(cfg, chs) ==
    LET n == Len(chs)
        refs == [k \in 1..n |-> k]
    IN  IF cfg.maxConcurrentDownloads <= 0
        THEN [k \in 1..n |-> <<k>>]
        ELSE IF n <= cfg.maxConcurrentDownloads
             THEN [k \in 1..n |-> <<k>>]
             ELSE BatchLoop(refs, 0, Ceil(n, cfg.maxConcurrentDownloads))

\* ------------------------------------------------------------------ errors
\* An Error object: its message as the chain of contexts, outermost first (each
\* `${context}; error: ${e}` puts one in front), the status code the message
\* carries (0: none) and the attempt whose batch raised it (0: none).
NoError == [chain |-> <<>>, status |-> 0, att |-> 0]

NewError(msg, status, att) == [chain |-> <<msg>>, status |-> status, att |-> att]

Wrap(msg, e) == [e EXCEPT !.chain = <<msg>> \o @]

\* What fetch() can reject with: it resolves for every HTTP response, whatever
\* the status, and rejects with a TypeError when the request itself fails.
ThrownByFetch == {[type |-> "TypeError", status |-> 0]}

\* The catch block of getContentLength, for the value e that was thrown.
ContentLengthError(e) ==
    IF e.type = "Response"
    THEN IF e.status = 404 THEN NewError("File not found", 0, 0)
         ELSE IF e.status = 403 THEN NewError("Access denied to file", 0, 0)
         ELSE IF e.status = 401 THEN NewError("Unauthorized to access file", 0, 0)
         ELSE IF e.status = 416
              THEN NewError("Requested range not satisfiable for file", 0, 0)
         ELSE NewError("Failed to get content length of file; status code", e.status, 0)
    ELSE NewError("Failed to get content length of file; error", 0, 0)

\* The try block of getContentLength, for the response fetch() resolved with:
\* response.headers.get('content-length') || '0' (the status is not read).
getContentLength(response) ==
    IF ~response.header.present \/ response.header.value = <<>>
    THEN <<48>>
    ELSE response.header.value

\* getFileSize(), for the response to the HEAD request.
getFileSize(response) == parseInt(getContentLength(response))

\* ------------------------------------------------------------------ server
\* The bytes the resource has in the range of a ranged request.
Avail(range, sz) ==
    LET first == range[2]
        last  == range[4]
    IN  IF last < first THEN 0 ELSE Max(0, Min(last, sz - 1) - first + 1)

\* The lengths the body of a 206 response to a ranged request may have: the
\* server sends what it sends, fewer bytes than the resource has in the
\* range, those bytes, or more.  (Byte k of the body is the byte at offset
\* first + k of the resource, when it has one.)
BodyLengths(range, sz) == 0..(Avail(range, sz) + MaxFaults)

\* The statuses with which the server answers a HEAD request.
HeadStatuses == {200, 404, 403, 401, 416, 500}

\* The statuses with which the server answers a ranged GET request.
RangeStatuses == {206, 200, 500}

\* ------------------------------------------------------------------- file
\* FileWriter.writeAt(p, off) on the file f, p being the n source bytes from
\* source offset first.  w: how many bytes of p fs.writeSync puts in the file
\* (it may be fewer than n).  thrown: whether fs.openSync, fs.writeSync or
\* fs.closeSync throws, which the catch turns into the error of writeAt:
\* openSync or writeSync with nothing written (w = 0), closeSync with the w
\* bytes in the file.  The file afterwards, the count returned and whether
\* writeAt threw.  No byte written leaves the length as it is, wherever off
\* is; the file is never truncated.
writeAt(f, off, first, n, w, thrown) ==
    LET k == Min(w, n)
    IN  [file |-> IF k = 0 THEN f
                  ELSE [o \in 1..Max(Len(f), off + k) |->
                           IF o - 1 >= off /\ o - 1 < off + k
                           THEN first + (o - 1 - off)
                           ELSE IF o <= Len(f) THEN f[o] ELSE Hole],
         ret |-> IF thrown THEN 0 ELSE k,
         thrown |-> thrown]

\* ------------------------------------------------------------ the retry loop
\* RetryAllowed with the loop test off by one (i <= maxRetries).
RetryAllowedOffByOne(cfg, k) == k <= cfg.maxRetries

\* The retry loop entered once whatever maxRetries is (a do ... while).
RetryAllowedAtLeastOnce(cfg, k) == k < Max(cfg.maxRetries, 1)

\* The loop test of download(): i < this.config.maxRetries.
RetryAllowed(cfg, k) == k < cfg.maxRetries

\* batches.map((batch) => this.downloadBatch(batch)) in attempt att: every
\* batch runs up to the fetch of its first chunk.
Launch(bs, att) ==
    {[att |-> att, b |-> b, j |-> 1, pc |-> "fetch", acc |-> 0] : b \in 1..Len(bs)}

RECURSIVE SumAcc(_)
SumAcc(ts) == IF ts = {} THEN 0
              ELSE LET t == CHOOSE x \in ts : TRUE IN t.acc + SumAcc(ts \ {t})

\* results.reduce((a, b) => a + b, 0) over the batches of attempt att.
Results(ts, att) == SumAcc({t \in ts : t.att = att})

\* ----------------------------------------------------------- configurations
\* The partDeterminer functions of the model: the constant ones.
PartDeterminers(maxSize, maxParts) ==
    {[s \in 0..maxSize |-> c] : c \in 1..maxParts}

\* The configurations: partDeterminer is consulted only when chunkSizeB <= 0,
\* so the configurations with a fixed chunk size all carry the same one.
Configs(maxSize, chunkSizes, concurrents, retries, maxParts) ==
    {cfg \in [chunkSizeB : chunkSizes,
              maxConcurrentDownloads : concurrents,
              maxRetries : retries,
              partDeterminer : PartDeterminers(maxSize, maxParts)] :
        cfg.chunkSizeB > 0 => cfg.partDeterminer = [s \in 0..maxSize |-> 1]}

\* The content-length header of a server for a resource of sz bytes: absent,
\* or the size in decimal.
Headers(sz) == {[present |-> FALSE, value |-> <<>>],
                [present |-> TRUE, value |-> ToDecimal(sz)]}

InitWith(maxSize, chunkSizes, concurrents, retries, maxParts) ==
    /\ config \in Configs(maxSize, chunkSizes, concurrents, retries, maxParts)
    /\ size \in 0..maxSize
    /\ contentLength \in Headers(size)
    /\ headStatus = 0
    /\ pc = "idle"
    /\ fileSize = 0
    /\ numberOfChunks = 0
    /\ chunks = <<>>
    /\ batches = <<>>
    /\ i = 0
    /\ attempts = 0
    /\ outcomes = <<>>
    /\ error = NoError
    /\ writtenBytes = 0
    /\ tasks = {}
    /\ file = <<>>
    /\ compliant = TRUE
    /\ writerCalls = 0
    /\ requests = 0
    /\ downloads = 0
    /\ earlier = {}
    /\ wholeWrites = TRUE
    /\ faults = 0

\* The execution model: chunks of at least two bytes (one-byte chunks only
\* make more chunks of the same kind), maxConcurrentDownloads >= 1 (a value
\* <= 0 plans the singleton batches that a value >= the chunk count plans)
\* and the partDeterminer of the default configuration (the plans of the
\* others are those of PlanSpec and ReuseSpec, and their chunks are executed
\* as those of a fixed chunk size are).
Init ==
    /\ InitWith(MaxSize, {-1} \cup 2..MaxChunkSize, 1..MaxConcurrent,
                -1..MaxRetries, DefaultParts)
    /\ config.maxConcurrentDownloads * config.maxRetries <= MaxLaunches
    /\ config.maxRetries * size <= MaxBytes

\* ----------------------------------------------------------------- actions
\* Downloader.download(url, filePath) is called: new DownloadImplementation,
\* download(), getFileSize(), getContentLength() up to the HEAD request.
Download ==
    /\ pc = "idle"
    /\ pc' = "head"
    /\ downloads' = downloads + 1
    /\ UNCHANGED <<config, size, contentLength, headStatus, fileSize,
                   numberOfChunks, chunks, batches, i, attempts, outcomes, error,
                   writtenBytes, tasks, file, compliant, writerCalls, requests,
                   earlier, wholeWrites, faults>>

\* The HEAD request fails (no response): getContentLength, getFileSize,
\* download() and Downloader.download() each wrap the error and rethrow.
HeadReject ==
    /\ pc = "head"
    /\ \E e \in ThrownByFetch :
          error' = Wrap("Failed to download file",
                        Wrap("Failed to download file",
                             Wrap("Failed to get file size", ContentLengthError(e))))
    /\ pc' = "rejected"
    /\ UNCHANGED <<config, size, contentLength, headStatus, fileSize,
                   numberOfChunks, chunks, batches, i, attempts, outcomes,
                   writtenBytes, tasks, file, compliant, writerCalls, requests,
                   downloads, earlier,
                   wholeWrites, faults>>

\* The HEAD request is answered with `status`: download() reads the size,
\* plans the chunks and the batches and enters the retry loop, whose first
\* iteration launches every batch (Promise.all of no batch resolves at once).
HeadResponse(status) ==
    /\ pc = "head"
    /\ headStatus' = status
    /\ LET response == [status |-> status, header |-> contentLength]
           fs       == getFileSize(response)
           plan     == determineNumberOfChunks(config, fs)
           chs      == createChunks(plan.config, plan.numberOfChunks)
           bs       == batchChunks(plan.config, chs)
       IN  /\ fileSize' = fs
           /\ numberOfChunks' = plan.numberOfChunks
           /\ config' = plan.config
           /\ chunks' = chs
           /\ batches' = bs
           /\ IF RetryAllowed(plan.config, 0)
              THEN /\ attempts' = 1
                   /\ tasks' = Launch(bs, 1)
                   /\ requests' = Len(bs)
                   /\ pc' = IF bs = <<>> THEN "resolved" ELSE "await"
                   /\ outcomes' = IF bs = <<>> THEN <<"ok">> ELSE <<>>
              ELSE /\ attempts' = 0
                   /\ tasks' = {}
                   /\ requests' = 0
                   /\ pc' = "resolved"
                   /\ outcomes' = <<>>
    /\ UNCHANGED <<size, contentLength, i, error, writtenBytes, file,
                   compliant, writerCalls, downloads, earlier,
                   wholeWrites, faults>>

\* The downloadBatch invocations that are still running (suspended on I/O).
Running(ts) == {t \in ts : t.pc \in {"fetch", "body"}}

\* The catch of the retry loop for the error e of the current attempt, the
\* next iteration, and the end of download() when there is none.  ts: the
\* downloadBatch invocations after the failure; those of the failed attempt
\* that are still running keep running, the results of the others are dropped.
AttemptFailed(ts, e) ==
    /\ i' = i + 1
    /\ outcomes' = Append(outcomes, "error")
    /\ IF RetryAllowed(config, i + 1)
       THEN /\ error' = e
            /\ attempts' = attempts + 1
            /\ tasks' = Running(ts) \cup Launch(batches, attempts + 1)
            /\ requests' = requests + Len(batches)
            /\ pc' = "await"
       ELSE /\ error' = Wrap("Failed to download file",
                             Wrap("Failed to download file", e))
            /\ attempts' = attempts
            /\ tasks' = Running(ts)
            /\ requests' = requests
            /\ pc' = "rejected"
    /\ UNCHANGED writtenBytes

\* try { ... break } of the retry loop when Promise.all resolves, and the
\* return of download().
AttemptSucceeded(ts) ==
    /\ writtenBytes' = Results(ts, attempts)
    /\ error' = NoError
    /\ outcomes' = Append(outcomes, "ok")
    /\ pc' = "resolved"
    /\ tasks' = Running(ts)
    /\ UNCHANGED <<i, attempts>>

\* Whether task t is one that Promise.all of the running attempt waits for.
Awaited(t) == pc = "await" /\ t.att = attempts

\* downloadPart of task t throws e: downloadPart and downloadBatch wrap it and
\* the batch's promise rejects.  Promise.all rejects with the first rejection
\* of the attempt it waits for; the rejection of a batch of an attempt that
\* has already failed goes nowhere.
TaskFail(t, e) ==
    IF Awaited(t)
    THEN AttemptFailed(tasks \ {t}, Wrap("Failed to download batch",
                                         Wrap("Failed to download part", e)))
    ELSE /\ tasks' = tasks \ {t}
         /\ UNCHANGED <<i, attempts, outcomes, error, pc, writtenBytes, requests>>

\* The ranged request of task t fails (no response): one fault.
FetchReject(t) ==
    /\ t \in tasks
    /\ t.pc = "fetch"
    /\ faults < MaxFaults
    /\ faults' = faults + 1
    /\ \E e \in ThrownByFetch : TaskFail(t, NewError(e.type, 0, t.att))
    /\ UNCHANGED <<config, size, contentLength, headStatus, fileSize,
                   numberOfChunks, chunks, batches, file, compliant, writerCalls,
                   downloads, earlier, wholeWrites>>

\* The body of the 206 response of task t fails to arrive: arrayBuffer()
\* rejects, in the try of downloadPart as fetch does.  One fault.
BodyReject(t) ==
    /\ t \in tasks
    /\ t.pc = "body"
    /\ faults < MaxFaults
    /\ faults' = faults + 1
    /\ \E e \in ThrownByFetch : TaskFail(t, NewError(e.type, 0, t.att))
    /\ UNCHANGED <<config, size, contentLength, headStatus, fileSize,
                   numberOfChunks, chunks, batches, file, compliant, writerCalls,
                   downloads, earlier, wholeWrites>>

\* The error downloadPart throws for a response whose status is not 206.
RefusalError(status, att) ==
    IF status = 200
    THEN NewError("Server does not support range requests", 0, att)
    ELSE NewError("Failed to download part; status code", status, att)

\* The ranged request of task t is answered with a status other than 206: one
\* fault.
FetchRefused(t, status) ==
    /\ t \in tasks
    /\ t.pc = "fetch"
    /\ status # 206
    /\ faults < MaxFaults
    /\ faults' = faults + 1
    /\ compliant' = FALSE
    /\ TaskFail(t, RefusalError(status, t.att))
    /\ UNCHANGED <<config, size, contentLength, headStatus, fileSize,
                   numberOfChunks, chunks, batches, file, writerCalls, downloads,
                   earlier, wholeWrites>>

\* write with the test for a full chunk off by one (current > size).
writeOffByOne(chunk, n, w, thrown) ==
    IF chunk.current > chunk.size
    THEN [ret |-> 0, chunk |-> chunk, called |-> FALSE, off |-> 0,
          thrown |-> FALSE]
    ELSE IF thrown
    THEN [ret |-> 0, chunk |-> chunk, called |-> TRUE,
          off |-> chunk.start + chunk.current, thrown |-> TRUE]
    ELSE [ret |-> Min(w, n), chunk |-> [chunk EXCEPT !.current = @ + Min(w, n)],
          called |-> TRUE, off |-> chunk.start + chunk.current,
          thrown |-> FALSE]

\* write positioning the bytes at current, without the chunk's start.
writeWithoutStart(chunk, n, w, thrown) ==
    IF chunk.current >= chunk.size
    THEN [ret |-> 0, chunk |-> chunk, called |-> FALSE, off |-> 0,
          thrown |-> FALSE]
    ELSE IF thrown
    THEN [ret |-> 0, chunk |-> chunk, called |-> TRUE,
          off |-> chunk.current, thrown |-> TRUE]
    ELSE [ret |-> Min(w, n), chunk |-> [chunk EXCEPT !.current = @ + Min(w, n)],
          called |-> TRUE, off |-> chunk.current, thrown |-> FALSE]

\* DownloadChunk.write(p) on chunk, p being n bytes.  w and thrown: what the
\* call of writer.writeAt does, if it is made (it returns the w <= n bytes it
\* wrote, or throws).  The bytes returned, the chunk afterwards (current
\* advanced by the count the writer returned), whether the writer was called,
\* the offset it was given, and whether write threw: there is no catch in
\* write, so that what the writer throws leaves current as it was.
write(chunk, n, w, thrown) ==
    IF chunk.current >= chunk.size
    THEN [ret |-> 0, chunk |-> chunk, called |-> FALSE, off |-> 0,
          thrown |-> FALSE]
    ELSE IF thrown
    THEN [ret |-> 0, chunk |-> chunk, called |-> TRUE,
          off |-> chunk.start + chunk.current, thrown |-> TRUE]
    ELSE [ret |-> Min(w, n), chunk |-> [chunk EXCEPT !.current = @ + Min(w, n)],
          called |-> TRUE, off |-> chunk.start + chunk.current,
          thrown |-> FALSE]

\* The ranged request of task t is answered with 206: downloadPart goes on to
\* await response.arrayBuffer(), and other requests may settle before the
\* body is there.
FetchPartial(t) ==
    /\ t \in tasks
    /\ t.pc = "fetch"
    /\ tasks' = (tasks \ {t}) \cup {[t EXCEPT !.pc = "body"]}
    /\ UNCHANGED <<config, size, contentLength, headStatus, pc, fileSize,
                   numberOfChunks, chunks, batches, i, attempts, outcomes, error,
                   writtenBytes, file, compliant, writerCalls, requests,
                   downloads, earlier,
                   wholeWrites, faults>>

\* The body of the 206 response of task t arrives, m bytes, and the chunk
\* writes them: p is what response.arrayBuffer() gave, whatever the range
\* asked for.  w and thrown: what the writer does if the chunk calls it
\* (w <= m bytes reach the file; it returns w or throws).  When write
\* returns, the batch adds the count to its sum and goes on to its next chunk
\* (whose request it issues) or returns, and Promise.all resolves when the
\* last batch of the attempt it waits for returns.  When it throws, the chunk
\* is as it was and the error goes through the catch of downloadPart like any
\* other.  d: the faults of the step, those of the body (the bytes it has more
\* or fewer than a) and those of the writer (the bytes it leaves unwritten,
\* one for throwing).
BodyRead(t, m, w, thrown) ==
    /\ t \in tasks
    /\ t.pc = "body"
    /\ LET c  == batches[t.b][t.j]
           wr == write(chunks[c], m, w, thrown)
           f  == writeAt(file, wr.off, chunks[c].start, m, w, thrown)
           t2 == [t EXCEPT !.acc = @ + wr.ret,
                           !.j = IF t.j < Len(batches[t.b]) THEN @ + 1 ELSE @,
                           !.pc = IF t.j < Len(batches[t.b]) THEN "fetch" ELSE "done"]
           ts == (tasks \ {t}) \cup {t2}
           a  == Avail(getRange(chunks[c]), size)
           d  == Max(m, a) - Min(m, a)
                 + (IF ~wr.called THEN 0
                    ELSE IF ~thrown THEN m - w
                    ELSE IF w = 0 THEN 1 ELSE 1 + (m - w))
       IN  /\ m \in BodyLengths(getRange(chunks[c]), size)
           /\ w <= m
           /\ faults + d <= MaxFaults
           /\ faults' = faults + d
           /\ compliant' = (compliant /\ m = Avail(getRange(chunks[c]), size))
           /\ writerCalls' = IF wr.called THEN writerCalls + 1 ELSE writerCalls
           /\ wholeWrites' = (wholeWrites /\ ~(wr.called /\ ~wr.thrown /\ w < m))
           /\ chunks' = [chunks EXCEPT ![c] = wr.chunk]
           /\ file' = IF wr.called THEN f.file ELSE file
           /\ IF wr.thrown
              THEN TaskFail(t, NewError("Failed to write to file at offset",
                                        0, t.att))
              ELSE /\ requests' = IF t2.pc = "fetch" THEN requests + 1
                                   ELSE requests
                   /\ IF Awaited(t)
                         /\ \A u \in ts : u.att = attempts => u.pc = "done"
                      THEN AttemptSucceeded(ts)
                      ELSE /\ tasks' = IF Awaited(t) \/ t2.pc = "fetch" THEN ts
                                       ELSE tasks \ {t}
                           /\ UNCHANGED <<i, attempts, outcomes, error, pc,
                                          writtenBytes>>
    /\ UNCHANGED <<config, size, contentLength, headStatus, fileSize,
                   numberOfChunks, batches, downloads, earlier>>

\* The arrival of the body of the 206 response of task t, whatever its length
\* and whatever the writer does.
BodyArrives(t) ==
    \E m \in 0..(size + MaxFaults) :
        \E w \in 0..m, thrown \in BOOLEAN : BodyRead(t, m, w, thrown)

\* The statuses with which the server of the execution model answers HEAD.
ExecHeadStatuses == {200}

Next ==
    \/ Download
    \/ HeadReject
    \/ \E status \in ExecHeadStatuses : HeadResponse(status)
    \/ \E t \in tasks : FetchReject(t)
    \/ \E t \in tasks, status \in RangeStatuses : FetchRefused(t, status)
    \/ \E t \in tasks : FetchPartial(t)
    \/ \E t \in tasks : BodyReject(t)
    \/ \E t \in tasks : BodyArrives(t)

Spec == Init /\ [][Next]_vars

\* The HEAD request is answered or fails.
HeadStep == HeadReject \/ \E status \in ExecHeadStatuses : HeadResponse(status)

\* The ranged request some running batch waits for is answered or fails, or
\* the body of its 206 response arrives or fails
\* (every write returns or throws within the step of its response).
TaskStep ==
    \E t \in tasks :
        \/ FetchReject(t)
        \/ \E status \in RangeStatuses : FetchRefused(t, status)
        \/ FetchPartial(t)
        \/ BodyReject(t)
        \/ BodyArrives(t)

\* The configurations of the execution model with maxRetries >= 0, for
\* resources of at most FairMaxSize bytes.
FairInit ==
    /\ InitWith(FairMaxSize, {-1} \cup 2..MaxChunkSize, 1..MaxConcurrent,
                0..MaxRetries, DefaultParts)
    /\ config.maxConcurrentDownloads * config.maxRetries <= MaxLaunches

\* The executions from them in which every HTTP request eventually returns
\* or fails.
FairSpec == FairInit /\ [][Next]_vars /\ WF_vars(HeadStep) /\ WF_vars(TaskStep)

\* ------------------------------------------------------- the planning model
\* Size discovery and planning alone, on more sizes and configurations and
\* against every status of the HEAD response: download() up to the launch of
\* the first attempt.
PlanInit == InitWith(PlanMaxSize, -1..PlanMaxChunkSize, -1..PlanMaxConcurrent,
                     0..1, PlanMaxParts)

PlanNext ==
    \/ Download
    \/ HeadReject
    \/ \E status \in HeadStatuses : HeadResponse(status)

PlanSpec == PlanInit /\ [][PlanNext]_vars

\* ------------------------------------------------- reuse of a Downloader
\* Downloader.download(url, filePath) is called again on the same Downloader,
\* at any time, for a resource of newSize bytes and a filePath that no other
\* call writes to: a new DownloadImplementation over the same config object,
\* with a FileWriter and chunks of its own.  The variables of download()
\* follow this latest call.  A call before that still awaits its HEAD
\* response goes on in `earlier`, with the header its response will carry,
\* for it will plan on the shared config; what the earlier calls do after
\* planning is on chunks and a file of their own.
DownloadAgain(newSize, header) ==
    /\ downloads >= 1
    /\ downloads < MaxDownloads
    /\ downloads' = downloads + 1
    /\ earlier' = IF pc = "head"
                  THEN earlier \cup {[call |-> downloads,
                                     contentLength |-> contentLength]}
                  ELSE earlier
    /\ pc' = "head"
    /\ size' = newSize
    /\ contentLength' = header
    /\ headStatus' = 0
    /\ fileSize' = 0
    /\ numberOfChunks' = 0
    /\ chunks' = <<>>
    /\ batches' = <<>>
    /\ i' = 0
    /\ attempts' = 0
    /\ outcomes' = <<>>
    /\ error' = NoError
    /\ writtenBytes' = 0
    /\ tasks' = {}
    /\ file' = <<>>
    /\ compliant' = TRUE
    /\ writerCalls' = 0
    /\ requests' = 0
    /\ wholeWrites' = TRUE
    /\ faults' = 0
    /\ UNCHANGED config

\* The HEAD request of the earlier call c is answered with `status`: that call
\* reads the size and plans, which writes the derived chunk size into the
\* shared config.
EarlierHeadResponse(c, status) ==
    /\ c \in earlier
    /\ LET response == [status |-> status, header |-> c.contentLength]
           fs       == getFileSize(response)
           plan     == determineNumberOfChunks(config, fs)
       IN  config' = plan.config
    /\ earlier' = earlier \ {c}
    /\ UNCHANGED <<size, contentLength, headStatus, pc, fileSize, numberOfChunks,
                   chunks, batches, i, attempts, outcomes, error, writtenBytes,
                   tasks, file, compliant, writerCalls, requests, downloads,
                   wholeWrites, faults>>

\* The HEAD request of the earlier call c fails: that call rejects.
EarlierHeadReject(c) ==
    /\ c \in earlier
    /\ earlier' = earlier \ {c}
    /\ UNCHANGED <<config, size, contentLength, headStatus, pc, fileSize,
                   numberOfChunks, chunks, batches, i, attempts, outcomes, error,
                   writtenBytes, tasks, file, compliant, writerCalls, requests,
                   downloads, wholeWrites, faults>>

\* The Downloaders whose calls are followed: chunk sizes as in the execution
\* model, one batch at a time and at most one attempt (the configuration is
\* shared by the plans, whatever the batches do), partDeterminers up to
\* MaxParts, resources of at most ReuseMaxSize bytes.
ReuseInit ==
    InitWith(ReuseMaxSize, {-1} \cup 2..MaxChunkSize, 1..1, 0..1, MaxParts)

ReuseNext ==
    \/ Next
    \/ \E newSize \in DOMAIN config.partDeterminer :
          \E header \in Headers(newSize) : DownloadAgain(newSize, header)
    \/ \E c \in earlier, status \in ExecHeadStatuses :
          EarlierHeadResponse(c, status)
    \/ \E c \in earlier : EarlierHeadReject(c)

ReuseSpec == ReuseInit /\ [][ReuseNext]_vars

\* ------------------------------------------------------------------ claims
\* Whether download() got past size discovery (the HEAD request was answered).
Planned == headStatus # 0

\* The least integer c with c * d >= a, for a >= 0 and d > 0.
CeilOf(a, d) == CHOOSE c \in 0..a : c * d >= a /\ (c - 1) * d < a

\* C1: once size discovery has succeeded with maxRetries >= 1, the batches are
\* launched once per attempt and at most maxRetries times; download() resolves
\* at the first attempt that completes without error, every earlier one having
\* failed; it rejects only after exactly maxRetries attempts that all failed,
\* with the error raised by a batch of the last attempt.
RetryBound ==
    (Planned /\ config.maxRetries >= 1) =>
        /\ attempts <= config.maxRetries
        /\ pc = "await" =>
              /\ Len(outcomes) = attempts - 1
              /\ \A k \in 1..Len(outcomes) : outcomes[k] = "error"
        /\ pc = "resolved" =>
              /\ Len(outcomes) = attempts
              /\ outcomes[attempts] = "ok"
              /\ \A k \in 1..(attempts - 1) : outcomes[k] = "error"
        /\ pc = "rejected" =>
              /\ attempts = config.maxRetries
              /\ Len(outcomes) = attempts
              /\ \A k \in 1..attempts : outcomes[k] = "error"
              /\ error.att = config.maxRetries

\* download() has rejected after two failed attempts, two being maxRetries.
RetryBoundWitness ==
    /\ pc = "rejected"
    /\ config.maxRetries = 2
    /\ attempts = 2
    /\ outcomes = <<"error", "error">>
    /\ error.att = 2

\* C2: when download() resolves against a server that answered every ranged
\* request with 206 and the bytes of its range and reported the resource's
\* size, every write having written its whole buffer, the number it returns
\* is the size of the resource, on the first attempt as after a retry.
ResolvesWithSize ==
    (/\ pc = "resolved"
     /\ config.maxRetries >= 1
     /\ compliant
     /\ wholeWrites
     /\ contentLength.present) => writtenBytes = size

\* C3: with maxConcurrentDownloads = k > 0, at most k batches are running (each
\* with one ranged request in flight) at any moment of a download().
ConcurrencyBound ==
    config.maxConcurrentDownloads > 0 =>
        Cardinality(Running(tasks)) <= config.maxConcurrentDownloads

\* The concatenation of the batches bs, in order.
RECURSIVE Flatten(_)
Flatten(bs) == IF bs = <<>> THEN <<>> ELSE Head(bs) \o Flatten(Tail(bs))

\* C4: the batches planned for n chunks with maxConcurrentDownloads = k are n
\* singletons in chunk order if k <= 0 or n <= k; otherwise they are at most k
\* batches of exactly ceil(n/k) chunks, but for the last, which is non-empty
\* and no larger; in every case their concatenation is the list of chunks.
BatchPartition ==
    Planned =>
        LET n == Len(chunks)
            k == config.maxConcurrentDownloads
            m == Len(batches)
        IN  /\ Flatten(batches) = [x \in 1..n |-> x]
            /\ IF k <= 0 \/ n <= k
               THEN /\ m = n
                    /\ \A b \in 1..m : batches[b] = <<b>>
               ELSE /\ m <= k
                    /\ \A b \in 1..(m - 1) : Len(batches[b]) = CeilOf(n, k)
                    /\ Len(batches[m]) >= 1
                    /\ Len(batches[m]) <= CeilOf(n, k)

\* More chunks than maxConcurrentDownloads > 1: fewer batches than that
\* maximum were planned, the last one smaller than the others.
BatchPartitionWitness ==
    /\ Planned
    /\ config.maxConcurrentDownloads > 1
    /\ Len(chunks) > config.maxConcurrentDownloads
    /\ Len(batches) < config.maxConcurrentDownloads
    /\ Len(batches[Len(batches)]) < Len(batches[1])

\* The byte offsets that the range of a chunk's request names.
RangeOf(chunk) == getRange(chunk)[2]..getRange(chunk)[4]

\* The step of download() that plans: the HEAD response arrives.
Plans == pc = "head" /\ headStatus' # 0

\* C5: planning a file of size S with a fixed chunk size C > 0 makes ceil(S/C)
\* chunks, the i-th (from 0) with the range [i*C, (i+1)*C): the ranges are
\* pairwise disjoint and their union is [0, count*C).
FixedSizeTiling ==
    [][(Plans /\ config.chunkSizeB > 0) =>
          LET C == config.chunkSizeB
              n == numberOfChunks'
          IN  /\ n = CeilOf(fileSize', C)
              /\ Len(chunks') = n
              /\ \A k \in 1..n : RangeOf(chunks'[k]) = ((k - 1) * C)..(k * C - 1)
              /\ \A k, l \in 1..n :
                    k # l => RangeOf(chunks'[k]) \cap RangeOf(chunks'[l]) = {}
              /\ UNION {RangeOf(chunks'[k]) : k \in 1..n} = 0..(n * C - 1)]_vars

\* A file of 12 bytes was planned with the fixed chunk size 5: 3 chunks, the
\* last one's range reaching past the end of the file.
FixedSizeTilingWitness ==
    /\ Planned
    /\ fileSize = 12
    /\ config.chunkSizeB = 5
    /\ numberOfChunks = 3
    /\ chunks[3].start = 10

\* The least multiple of d > 0 that is >= a.
LeastMultiple(d, a) == d * CeilOf(a, d)

\* C6 as stated: planning a file of size S > 0 with no fixed chunk size and
\* partDeterminer(S) = count derives the chunk size ceil(S/count); size * count
\* is >= S and is the smallest multiple of ceil(S/count) that is >= S.
DerivedSizeLeastMultiple ==
    [][(Plans /\ config.chunkSizeB <= 0 /\ fileSize' > 0) =>
          LET S     == fileSize'
              count == numberOfChunks'
              sz    == config'.chunkSizeB
          IN  /\ count = partDeterminer(config, S)
              /\ sz = CeilOf(S, count)
              /\ sz * count >= S
              /\ sz * count = LeastMultiple(CeilOf(S, count), S)]_vars

\* C6, amended: ... the derived chunk size is ceil(S/count); size * count is a
\* multiple of ceil(S/count) that is >= S and exceeds S by less than count.
DerivedSizeCovers ==
    [][(Plans /\ config.chunkSizeB <= 0 /\ fileSize' > 0) =>
          LET S     == fileSize'
              count == numberOfChunks'
              sz    == config'.chunkSizeB
          IN  /\ count = partDeterminer(config, S)
              /\ sz = CeilOf(S, count)
              /\ sz * count >= S
              /\ sz * count - S < count]_vars

\* A file of 5 bytes was planned in 4 parts: the derived chunk size is 2, and
\* 4 chunks of 2 bytes make 8, not 6.
DerivedSizeWitness ==
    /\ Planned
    /\ fileSize = 5
    /\ numberOfChunks = 4
    /\ config.chunkSizeB = 2

\* C7: every chunk has 0 <= current <= size, in every state of a download.
CurrentWithinSize ==
    \A k \in 1..Len(chunks) :
        chunks[k].current >= 0 /\ chunks[k].current <= chunks[k].size

\* C8: a write on a full chunk (current = size), which is what the arrival of
\* the body of a 206 response makes the batch do, returns 0 (the count stays),
\* does not call the writer and leaves the chunks and the file unchanged.
FullWriteIsNoOp ==
    [][\A t \in tasks :
          (/\ t.pc = "body"
           /\ LET chunk == chunks[batches[t.b][t.j]]
              IN  chunk.current = chunk.size
           /\ t \notin tasks'
           /\ BodyArrives(t)) =>
                 /\ chunks' = chunks
                 /\ file' = file
                 /\ writerCalls' = writerCalls
                 /\ \A u \in tasks' :
                       (u.att = t.att /\ u.b = t.b) => u.acc = t.acc]_vars

\* A batch of a later attempt is at its second chunk with nothing written, its
\* first chunk (of more than 0 bytes) having been full: its write returned 0.
FullWriteWitness ==
    \E t \in tasks :
        /\ t.att >= 2
        /\ t.j = 2
        /\ t.acc = 0
        /\ LET chunk == chunks[batches[t.b][1]]
           IN  chunk.size > 0 /\ chunk.current = chunk.size

\* The message with which getContentLength classifies a failure status.
Classification(status) ==
    IF status = 404 THEN "File not found"
    ELSE IF status = 403 THEN "Access denied to file"
    ELSE IF status = 401 THEN "Unauthorized to access file"
    ELSE IF status = 416 THEN "Requested range not satisfiable for file"
    ELSE "Failed to get content length of file; status code"

\* C9: a HEAD request answered with a failure status (404, 403, 401, 416 or
\* another one) makes download() reject with the classification of the
\* status, and no chunk is planned or requested.
HeadFailureRejects ==
    (Planned /\ headStatus # 200) =>
        /\ pc = "rejected"
        /\ error.chain # <<>>
        /\ error.chain[Len(error.chain)] = Classification(headStatus)
        /\ chunks = <<>>
        /\ tasks = {}

\* C10: when the HEAD response reports 0 bytes or no content-length,
\* download() rejects (a discovery failure) and plans and requests no chunk.
ZeroSizeRejects ==
    (Planned /\ (~contentLength.present \/ fileSize = 0)) =>
        /\ pc = "rejected"
        /\ chunks = <<>>
        /\ tasks = {}

\* The message of the innermost cause of an error.
RootMessage(e) == IF e.chain = <<>> THEN "" ELSE e.chain[Len(e.chain)]

\* C11: whenever a ranged request of some attempt is answered 200, nothing is
\* written, at most one iteration of the retry loop is consumed by it, the
\* attempt the request belongs to has failed, and the error that attempt
\* failed with (the last one caught, while no later attempt has failed) is
\* the "range requests unsupported" error.
RefusalFailsItsAttempt ==
    [][\A t \in tasks :
          (t.pc = "fetch" /\ t \notin tasks' /\ FetchRefused(t, 200)) =>
              /\ chunks' = chunks
              /\ file' = file
              /\ writerCalls' = writerCalls
              /\ i' \in {i, i + 1}
              /\ t.att <= Len(outcomes')
              /\ outcomes'[t.att] = "error"
              /\ (error'.att = t.att =>
                     RootMessage(error') =
                         "Server does not support range requests")]_vars

\* C12: within a batch at most one segment is in progress at every moment of
\* a download(), retries included: no two segments of the same batch have a
\* ranged request outstanding at the same time.
OneSegmentPerBatch ==
    \A t \in Running(tasks), u \in Running(tasks) :
        t.b = u.b => t.j = u.j

\* C13: the failure of an attempt is surfaced only after every batch launched
\* in that attempt has returned or failed: no batch of an attempt that has
\* failed is still running.
FailureAfterAllBatches ==
    \A t \in Running(tasks) :
        t.att <= Len(outcomes) => outcomes[t.att] # "error"

\* C14: segments are rebuilt for every attempt: when a retry attempt starts,
\* every segment it uses has writtenSoFar = 0.
RetryStartsFromZero ==
    [][(attempts >= 1 /\ attempts' = attempts + 1) =>
          \A c \in 1..Len(chunks') : chunks'[c].current = 0]_vars

\* C15: every write a segment makes to the destination file, of a body that
\* has at most the bytes the resource has in the segment's range, lies inside
\* the segment's own range [start, start + size).
WritesInsideOwnRange ==
    [][\A t \in tasks :
          \A m \in 0..(size + MaxFaults) :
             \A w \in 0..m, thrown \in BOOLEAN :
                (/\ t.pc = "body"
                 /\ writerCalls' # writerCalls
                 /\ m <= Avail(getRange(chunks[batches[t.b][t.j]]), size)
                 /\ BodyRead(t, m, w, thrown)) =>
                    LET chunk == chunks[batches[t.b][t.j]]
                        wr    == write(chunk, m, w, thrown)
                    IN  /\ chunk.start <= wr.off
                        /\ wr.off + w <= chunk.start + chunk.size]_vars

\* download() has settled: its promise is resolved or rejected.
Settled == pc \in {"resolved", "rejected"}

\* C16: when every request eventually returns or fails, every call to
\* download() eventually settles, and it launches at most maxRetries attempts
\* and issues at most maxRetries * segmentCount ranged requests.
EventuallySettles ==
    /\ (pc = "head") ~> Settled
    /\ [](/\ attempts <= Max(config.maxRetries, 0)
          /\ requests <= attempts * Len(chunks)
          /\ requests <= config.maxRetries * Len(chunks))

\* A download() that used every attempt and every request it may use.
EventuallySettlesWitness ==
    /\ pc = "rejected"
    /\ config.maxRetries = 2
    /\ attempts = 2
    /\ Len(chunks) >= 2
    /\ requests = 2 * Len(chunks)

\* C17 (as stated): for maxRetries >= 1 and a discovered size S > 0, whenever
\* download() has resolved, on the first attempt or after retries, against a
\* server that answered every ranged request with 206 and the bytes of its
\* range, every offset in [0, S) of the destination file holds the source's
\* byte at that offset.
ResolvedFileIsSource ==
    (pc = "resolved" /\ config.maxRetries >= 1 /\ fileSize > 0 /\ compliant) =>
        /\ fileSize = size
        /\ Len(file) >= fileSize
        /\ \A o \in 0..(fileSize - 1) : file[o + 1] = o

\* C17 (amended): for maxRetries >= 1 and a discovered size S > 0, whenever
\* download() has resolved, on the first attempt or after retries, against a
\* server that answered every ranged request with 206 and the bytes of its
\* range, every write that returned having written its whole buffer, every
\* offset in [0, S) of the destination file holds the source's byte at that
\* offset.
ResolvedWholeFileIsSource ==
    (/\ pc = "resolved"
     /\ config.maxRetries >= 1
     /\ fileSize > 0
     /\ compliant
     /\ wholeWrites) =>
        /\ fileSize = size
        /\ Len(file) >= fileSize
        /\ \A o \in 0..(fileSize - 1) : file[o + 1] = o

\* download() resolved on its second attempt, every body having had the bytes
\* of its range and every write having written its whole buffer, with fewer
\* bytes counted than the resource has, and bytes written past the end of the
\* resource.
ResolvedFileWitness ==
    /\ pc = "resolved"
    /\ compliant
    /\ wholeWrites
    /\ attempts = 2
    /\ fileSize = 5
    /\ writtenBytes < fileSize
    /\ Len(file) > fileSize
    /\ \A o \in 0..(fileSize - 1) : file[o + 1] = o

\* C18: when download() has settled, no ranged request of it is in flight
\* (so nothing can be written and no segment can change afterwards).
SettledIsQuiet ==
    pc \in {"resolved", "rejected"} => Running(tasks) = {}

\* C19: the chunk size derived during planning stays in the configuration
\* shared by the downloads of one Downloader: planning a size S > 0 with a
\* configured size <= 0 leaves ceil(S/partDeterminer(S)) > 0 there; planning
\* with a configured size > 0 leaves the configuration as it is and makes
\* ceil(S'/that size) chunks, whatever partDeterminer says; and a configured
\* size > 0 never changes again, from one download to the next.
SharedConfigKeepsDerivedSize ==
    [][/\ (Plans /\ config.chunkSizeB <= 0 /\ fileSize' > 0) =>
              /\ config'.chunkSizeB =
                     CeilOf(fileSize', partDeterminer(config, fileSize'))
              /\ config'.chunkSizeB > 0
       /\ (Plans /\ config.chunkSizeB > 0) =>
              /\ config' = config
              /\ numberOfChunks' = CeilOf(fileSize', config.chunkSizeB)
       /\ (config.chunkSizeB > 0) => config'.chunkSizeB = config.chunkSizeB
       /\ \A c \in earlier, status \in ExecHeadStatuses :
              (EarlierHeadResponse(c, status) /\ config.chunkSizeB <= 0) =>
                  \/ getFileSize([status |-> status,
                                  header |-> c.contentLength]) <= 0
                  \/ config'.chunkSizeB > 0]_vars

\* The second download of a Downloader configured by count (two parts): the
\* first download left the chunk size 1, and 3 bytes are planned as 3 chunks.
SharedConfigWitness ==
    /\ downloads = 2
    /\ Planned
    /\ \A s \in DOMAIN config.partDeterminer : partDeterminer(config, s) = 2
    /\ config.chunkSizeB = 1
    /\ fileSize = 3
    /\ numberOfChunks = 3

\* C20: with maxRetries <= 0, download() discovers the size and plans, but
\* launches no batch: it issues no ranged request, writes nothing, and
\* resolves with 0, whatever the resource size.
NoRetriesResolvesEmpty ==
    (Planned /\ config.maxRetries <= 0) =>
        /\ pc = "resolved"
        /\ writtenBytes = 0
        /\ error = NoError
        /\ Len(chunks) = numberOfChunks
        /\ attempts = 0
        /\ tasks = {}
        /\ requests = 0
        /\ writerCalls = 0
        /\ file = <<>>

\* A resource of 5 bytes planned as 3 chunks in 2 batches with maxRetries = 0:
\* download() has resolved with 0.
NoRetriesWitness ==
    /\ Planned
    /\ config.maxRetries = 0
    /\ fileSize = 5
    /\ Len(chunks) = 3
    /\ Len(batches) = 2
    /\ pc = "resolved"
    /\ writtenBytes = 0

\* Sanity of the model: Promise.all waits for one invocation per batch, each
\* running or returned, and the attempts before it have all settled.
AwaitedBatches ==
    pc = "await" =>
        /\ {t.b : t \in {u \in tasks : u.att = attempts}} = 1..Len(batches)
        /\ Cardinality({u \in tasks : u.att = attempts}) = Len(batches)
        /\ \A u \in tasks : u.att # attempts => u \in Running(tasks)

\* Sanity of parseInt on strings that are not plain decimal numbers.
ParseIntExamples ==
    /\ parseInt(<<32, 49, 50, 97>>) = 12          \* " 12a"
    /\ parseInt(<<45, 55>>) = -7                  \* "-7"
    /\ parseInt(<<48, 120, 49, 70>>) = 31         \* "0x1F"
    /\ parseInt(<<48, 49, 48>>) = 10              \* "010"
    /\ parseInt(<<8232, 55>>) = 7                 \* line separator, "7"
    /\ parseInt(<<12288, 160, 55>>) = 7
    /\ parseInt(<<233, 55>>) = NaN                \* e acute, "7"
    /\ parseInt(<<133, 55>>) = NaN                \* next line, "7"
    /\ parseInt(<<8203, 55>>) = NaN               \* zero width space, "7"
    /\ parseInt(<<6158, 55>>) = NaN               \* mongolian vowel separator
    /\ parseInt(<<173, 55>>) = NaN                \* soft hyphen
    /\ parseInt(<<120>>) = NaN                    \* "x"
    /\ parseInt(<<>>) = NaN
    /\ \A n \in 0..120 : parseInt(ToDecimal(n)) = n

====
